---- MODULE Spec2Model ----
(***************************************************************************)
(* A model of eli5/formatters/html.py: the HTML formatter of explanations. *)
(*                                                                         *)
(* Text is a sequence of one-character strings.  Markup is a sequence of   *)
(* elements: a <span> with its style declarations, its title attribute and *)
(* its (escaped) content, or a run of literal text.                        *)
(*                                                                         *)
(* The weights given to a call are counted in units of 1e-8, the absolute  *)
(* tolerance of numpy.isclose, so that the tolerance itself is the weight  *)
(* EPS; the numbers computed from them are floats.                         *)
(***************************************************************************)
EXTENDS Integers, Sequences, FiniteSets, TLC

VARIABLES
    op,                   \* the call made last, "idle" before any
    weighted_spans_data,  \* render_weighted_spans: its argument
    frame,                \* render_weighted_spans: its locals and its outcome
    feature_arg,          \* _format_feature: the feature
    weight_arg,           \* _format_feature: the weight
    feature_result,       \* _format_feature: its outcome and the markup returned
    filter_args,          \* a colour filter: its arguments
    color_result,         \* a colour filter: its outcome and the colour returned
    explanation_arg,      \* format_as_html: the explanation as it was passed
    show_arg,             \* format_as_html: the fields to show
    heap,                 \* format_as_html: the objects, by id
    context               \* format_as_html: what template.render was given,
                          \* or the exception the call raised

vars == <<op, weighted_spans_data, frame, feature_arg, weight_arg,
          feature_result, filter_args, color_result, explanation_arg,
          show_arg, heap, context>>

(***************************************************************************)
(* Bounds of the model.                                                    *)
(***************************************************************************)
MaxDocLen == 2
MaxTotalRanges == 2
MaxNameLen == 2
MaxCandidates == 3

(***************************************************************************)
(* Generic helpers.                                                        *)
(***************************************************************************)
Abs(x) == IF x < 0 THEN -x ELSE x

SeqsUpTo(S, n) == UNION {[1..k -> S] : k \in 0..n}

RECURSIVE Flatten(_)
Flatten(parts) ==
    IF parts = <<>> THEN <<>> ELSE Head(parts) \o Flatten(Tail(parts))

\* n < scale with leading zeros, in as many digits as scale - 1 has.
RECURSIVE Pad(_, _)
Pad(n, scale) ==
    IF scale <= 10 \/ n >= scale \div 10 THEN ToString(n)
    ELSE "0" \o Pad(n, scale \div 10)

(***************************************************************************)
(* Floats.  The numbers of the program are IEEE-754 binary64 doubles, and  *)
(* the model computes with them as the code does: every operation is       *)
(* rounded to nearest, ties to even.  A number is a record: np tells a     *)
(* numpy.float64 from a Python number, neg is the sign, and the magnitude  *)
(* is m * 2^e, e in MinExp..MaxExp: m is a natural of MantissaBits bits,   *)
(* or of fewer bits with e = MinExp (a subnormal), or empty with e = 0     *)
(* (zero).  Beyond MaxExp are infinity and nan, as in the format itself:   *)
(* the next exponent with an empty m and with a nonempty one.  The sign of *)
(* a nan is not kept: no comparison and no format of the program reads it. *)
(* Naturals are sequences of limbs, least significant first, without       *)
(* leading zero limbs.  A weight is given to a call as a count k of units  *)
(* of 1e-8 and stands for the float that k * 1e-8 denotes.                 *)
(***************************************************************************)
UnitsPerOne == 100000000

LimbBase == 32768

LimbBits == 15

MantissaBits == 53

\* The exponents of the least subnormal, 2^-1074, and of the mantissa of the
\* greatest double, (2^53 - 1) * 2^971.
MinExp == -1074

MaxExp == 971

RECURSIVE BNorm(_)
BNorm(a) ==
    IF a = <<>> THEN <<>>
    ELSE IF a[Len(a)] = 0 THEN BNorm(SubSeq(a, 1, Len(a) - 1)) ELSE a

RECURSIVE BFromInt(_)
BFromInt(n) ==
    IF n = 0 THEN <<>> ELSE <<n % LimbBase>> \o BFromInt(n \div LimbBase)

RECURSIVE BToInt(_)
BToInt(a) == IF a = <<>> THEN 0 ELSE a[1] + LimbBase * BToInt(Tail(a))

Limb(a, i) == IF i <= Len(a) THEN a[i] ELSE 0

\* a + b + carry, from limb i on.
RECURSIVE AddFrom(_, _, _, _)
AddFrom(a, b, i, carry) ==
    IF i > Len(a) /\ i > Len(b)
    THEN (IF carry = 0 THEN <<>> ELSE <<carry>>)
    ELSE <<(Limb(a, i) + Limb(b, i) + carry) % LimbBase>>
            \o AddFrom(a, b, i + 1,
                       (Limb(a, i) + Limb(b, i) + carry) \div LimbBase)

BAdd(a, b) == AddFrom(a, b, 1, 0)

\* a - b - borrow, from limb i on, for a >= b.
RECURSIVE SubFrom(_, _, _, _)
SubFrom(a, b, i, borrow) ==
    IF i > Len(a) THEN <<>>
    ELSE <<(Limb(a, i) - Limb(b, i) - borrow) % LimbBase>>
            \o SubFrom(a, b, i + 1,
                       IF Limb(a, i) - Limb(b, i) - borrow < 0 THEN 1 ELSE 0)

BSub(a, b) == BNorm(SubFrom(a, b, 1, 0))

RECURSIVE CmpFrom(_, _, _)
CmpFrom(a, b, i) ==
    IF i = 0 THEN 0
    ELSE IF a[i] # b[i] THEN (IF a[i] > b[i] THEN 1 ELSE -1)
    ELSE CmpFrom(a, b, i - 1)

\* -1, 0 or 1 as a is less than, equal to or greater than b.
BCmp(a, b) ==
    IF Len(a) # Len(b) THEN (IF Len(a) > Len(b) THEN 1 ELSE -1)
    ELSE CmpFrom(a, b, Len(a))

\* a * d + carry, from limb i on, for one limb d.
RECURSIVE MulSmallFrom(_, _, _, _)
MulSmallFrom(a, d, i, carry) ==
    IF i > Len(a) THEN (IF carry = 0 THEN <<>> ELSE <<carry>>)
    ELSE <<(a[i] * d + carry) % LimbBase>>
            \o MulSmallFrom(a, d, i + 1, (a[i] * d + carry) \div LimbBase)

BMulSmall(a, d) == IF d = 0 THEN <<>> ELSE MulSmallFrom(a, d, 1, 0)

BShlLimbs(a, k) == IF a = <<>> THEN <<>> ELSE [i \in 1..k |-> 0] \o a

RECURSIVE Pow2(_)
Pow2(k) == IF k = 0 THEN 1 ELSE 2 * Pow2(k - 1)

\* a * 2^n.
BShl(a, n) == BShlLimbs(BMulSmall(a, Pow2(n % LimbBits)), n \div LimbBits)

\* The limbs of a from the k-th on, each joined with the low bits of the
\* next: p is 2^r and q is 2^(LimbBits - r) for a shift by r bits.
ShrLimbs(a, k, p, q) ==
    [i \in 1..(Len(a) - k) |->
        (a[i + k] \div p) + (Limb(a, i + k + 1) % p) * q]

\* a \div 2^n.
BShr(a, n) ==
    IF n \div LimbBits >= Len(a) THEN <<>>
    ELSE BNorm(ShrLimbs(a, n \div LimbBits, Pow2(n % LimbBits),
                        Pow2(LimbBits - (n % LimbBits))))

\* The bit of a that weighs 2^n.
BitAt(a, n) == (Limb(a, n \div LimbBits + 1) \div Pow2(n % LimbBits)) % 2

\* The n lowest bits of a are all 0.
LowZero(a, n) ==
    /\ \A i \in 1..(n \div LimbBits) : Limb(a, i) = 0
    /\ Limb(a, n \div LimbBits + 1) % Pow2(n % LimbBits) = 0

RECURSIVE MulFrom(_, _, _)
MulFrom(a, b, i) ==
    IF i > Len(b) THEN <<>>
    ELSE BAdd(BShlLimbs(BMulSmall(a, b[i]), i - 1), MulFrom(a, b, i + 1))

BMul(a, b) == MulFrom(a, b, 1)

RECURSIVE BitLen(_)
BitLen(n) == IF n = 0 THEN 0 ELSE 1 + BitLen(n \div 2)

BLenBits(a) ==
    IF a = <<>> THEN 0 ELSE LimbBits * (Len(a) - 1) + BitLen(a[Len(a)])

\* The largest limb d in lo..hi with b * d <= r.
RECURSIVE Digit(_, _, _, _)
Digit(r, b, lo, hi) ==
    IF lo = hi THEN lo
    ELSE IF BCmp(BMulSmall(b, (lo + hi + 1) \div 2), r) <= 0
    THEN Digit(r, b, (lo + hi + 1) \div 2, hi)
    ELSE Digit(r, b, lo, (lo + hi + 1) \div 2 - 1)

\* One step of long division: the quotient limb d put before the quotient q,
\* and what is left of r.
DivPut(d, r, b, q) == <<(<<d>> \o q), BSub(r, BMulSmall(b, d))>>

DivStep(limb, b, prev) ==
    DivPut(Digit(BNorm(<<limb>> \o prev[2]), b, 0, LimbBase - 1),
           BNorm(<<limb>> \o prev[2]), b, prev[1])

\* Long division of the limbs i.. of a by b: <<quotient limbs, remainder>>.
RECURSIVE DivFrom(_, _, _)
DivFrom(a, b, i) ==
    IF i > Len(a) THEN <<<<>>, <<>>>>
    ELSE DivStep(a[i], b, DivFrom(a, b, i + 1))

\* <<the quotient, whether anything remained>> of a division d, none being
\* the remainder of an exact one.
QuotRem(d, none) == <<BNorm(d[1]), d[2] # none>>

\* <<a \div b, a % b # 0>> for naturals a and b > 0.
BDivMod(a, b) == QuotRem(DivFrom(a, b, 1), <<>>)

\* Division by an integer d < 2^26, five bits of the dividend at a time:
\* st is <<the quotient of the limb so far, the remainder>>.
Chunk(st, c, d) ==
    <<st[1] * 32 + (st[2] * 32 + c) \div d, (st[2] * 32 + c) % d>>

\* One limb after the remainder r of the limbs above it.
SmallStep(limb, d, r) ==
    Chunk(Chunk(Chunk(<<0, r>>, limb \div 1024, d), (limb \div 32) % 32, d),
          limb % 32, d)

\* The limbs j down to i of a after the remainder r of the limbs above them:
\* <<quotient limbs, the leading one first, remainder>>.  The upper half of
\* the limbs is divided first, the lower half after its remainder.
RECURSIVE SmallFrom(_, _, _, _, _)
SmallFrom(a, d, i, j, r) ==
    IF i > j THEN <<<<>>, r>>
    ELSE IF i = j
    THEN <<<<SmallStep(a[i], d, r)[1]>>, SmallStep(a[i], d, r)[2]>>
    ELSE LET high == SmallFrom(a, d, (i + j) \div 2 + 1, j, r)
             low == SmallFrom(a, d, i, (i + j) \div 2, high[2])
         IN  <<high[1] \o low[1], low[2]>>

\* <<quotient limbs, the least significant first, remainder>> of a by d.
SmallDiv(a, d) ==
    LET leading == SmallFrom(a, d, 1, Len(a), 0)
    IN  <<[i \in 1..Len(a) |-> leading[1][Len(a) + 1 - i]], leading[2]>>

\* <<a \div d, a % d # 0>> for a natural a and an integer 0 < d < 2^26.
BDivSmall(a, d) == QuotRem(SmallDiv(a, d), 0)

\* A magnitude m * 2^e.
Mag(m, e) == [m |-> m, e |-> e]

MZero == Mag(<<>>, 0)

MInf == Mag(<<>>, MaxExp + 1)

MNan == Mag(<<1>>, MaxExp + 1)

\* m * 2^e for m of at most MantissaBits + 1 bits, a power of two if it has
\* that many: 0.0 when nothing is left of m, infinity beyond the greatest
\* double.
Carry(m, e) ==
    IF m = <<>> THEN MZero
    ELSE IF BLenBits(m) > MantissaBits
    THEN (IF e + 1 > MaxExp THEN MInf
          ELSE Mag(BShl(<<1>>, MantissaBits - 1), e + 1))
    ELSE IF e > MaxExp THEN MInf
    ELSE Mag(m, e)

\* x * 2^e rounded to MantissaBits bits, n being the bits x has beyond them,
\* or to the bits above 2^MinExp when these are fewer (gradual underflow):
\* up when the first bit dropped is 1 and either a lower bit is, or the last
\* bit kept (ties to even).
RECURSIVE RoundBits(_, _, _)
RoundBits(x, e, n) ==
    IF n < MinExp - e THEN RoundBits(x, e, MinExp - e)
    ELSE IF n <= 0 THEN Carry(BShl(x, -n), e + n)
    ELSE Carry(IF BitAt(x, n - 1) = 1
                    /\ (~LowZero(x, n - 1) \/ BitAt(x, n) = 1)
               THEN BAdd(BShr(x, n), <<1>>) ELSE BShr(x, n),
               e + n)

\* The double nearest to x * 2^e, for a natural x.
RoundNat(x, e) ==
    IF x = <<>> THEN MZero ELSE RoundBits(x, e, BLenBits(x) - MantissaBits)

\* A quotient with a bit appended that tells whether anything remained: it
\* rounds as the exact ratio does when the quotient has two bits or more
\* beyond MantissaBits.
Sticky(d) == BAdd(BShl(d[1], 1), IF d[2] THEN <<1>> ELSE <<>>)

\* The double nearest to n / d, for integers n >= 0 and 0 < d < 2^26: n is
\* shifted by s bits so that the quotient has two bits or more beyond
\* MantissaBits.
MFromRatio(n, d) ==
    IF n = 0 THEN MZero
    ELSE LET s == MantissaBits + 2 + BitLen(d) - BitLen(n)
         IN  RoundNat(Sticky(BDivSmall(BShl(BFromInt(n), s), d)), -s - 1)

\* The double nearest to k * 1e-8, for k >= 0: 1e8 is 5^8 * 2^8, and the
\* division by 2^8 is exact.
MFromUnits(k) ==
    LET x == MFromRatio(k, UnitsPerOne \div Pow2(8))
    IN  IF x = MZero THEN x ELSE Mag(x.m, x.e - 8)

\* -1, 0 or 1 as x is less than, equal to or greater than y; 2 when either
\* is a nan, which no comparison holds of.
MCmp(x, y) ==
    IF x = MNan \/ y = MNan THEN 2
    ELSE IF x = MZero \/ y = MZero
    THEN (IF x = y THEN 0 ELSE IF x = MZero THEN -1 ELSE 1)
    ELSE IF x.e # y.e THEN (IF x.e > y.e THEN 1 ELSE -1)
    ELSE BCmp(x.m, y.m)

\* x + y, x - y (for x >= y) and x * y on finite magnitudes greater than 0,
\* as <<p, e>> for p * 2^e: the exact value, but that a term whose exponent
\* is less by more than MantissaBits + 8 is below 2^-8 of the last bit of
\* the other, and stands as one eighth of that bit, which rounds as the exact
\* value does.
Exactly(oper, x, y) ==
    CASE oper = "*" -> <<BMul(x.m, y.m), x.e + y.e>>
      [] oper = "+" ->
            IF x.e - y.e > MantissaBits + 8
            THEN <<BAdd(BShl(x.m, 3), <<1>>), x.e - 3>>
            ELSE IF y.e - x.e > MantissaBits + 8
            THEN <<BAdd(BShl(y.m, 3), <<1>>), y.e - 3>>
            ELSE <<BAdd(BShl(x.m, x.e - (IF x.e < y.e THEN x.e ELSE y.e)),
                        BShl(y.m, y.e - (IF x.e < y.e THEN x.e ELSE y.e))),
                   IF x.e < y.e THEN x.e ELSE y.e>>
      [] oper = "-" ->
            IF x.e - y.e > MantissaBits + 8
            THEN <<BSub(BShl(x.m, 3), <<1>>), x.e - 3>>
            ELSE <<BSub(BShl(x.m, x.e - (IF x.e < y.e THEN x.e ELSE y.e)),
                        BShl(y.m, y.e - (IF x.e < y.e THEN x.e ELSE y.e))),
                   IF x.e < y.e THEN x.e ELSE y.e>>

RoundExact(t) == RoundNat(t[1], t[2])

\* x / y for finite magnitudes greater than 0: the quotient of the
\* mantissas, x shifted so that the quotient has two bits or more beyond
\* MantissaBits, and a sticky bit.
MDiv(x, y) ==
    RoundNat(Sticky(BDivMod(BShl(x.m, MantissaBits + 2 + BLenBits(y.m)
                                          - BLenBits(x.m)),
                            y.m)),
             x.e - y.e - (MantissaBits + 2 + BLenBits(y.m) - BLenBits(x.m))
                 - 1)

\* x oper y on magnitudes (x >= y for "-"): nan from a nan, from
\* inf - inf, inf * 0, inf / inf and 0 / 0; x / 0 is otherwise infinity.
MOp(oper, x, y) ==
    IF x = MNan \/ y = MNan THEN MNan
    ELSE IF x = MInf \/ y = MInf
    THEN CASE oper = "+" -> MInf
           [] oper = "-" -> IF y = MInf THEN MNan ELSE MInf
           [] oper = "*" -> IF x = MZero \/ y = MZero THEN MNan ELSE MInf
           [] oper = "/" -> IF y # MInf THEN MInf
                            ELSE IF x = MInf THEN MNan ELSE MZero
    ELSE IF x = MZero \/ y = MZero
    THEN CASE oper = "+" -> IF x = MZero THEN y ELSE x
           [] oper = "-" -> x
           [] oper = "*" -> MZero
           [] oper = "/" -> IF y # MZero THEN MZero
                            ELSE IF x = MZero THEN MNan ELSE MInf
    ELSE IF oper = "/" THEN MDiv(x, y)
    ELSE RoundExact(Exactly(oper, x, y))

\* The integer nearest to x * scale, as the 'f' formats round: on the exact
\* binary value, ties to even.  p is the mantissa times scale.
RoundShift(p, n) ==
    BAdd(BShr(p, n),
         IF BitAt(p, n - 1) = 1 /\ (~LowZero(p, n - 1) \/ BitAt(p, n) = 1)
         THEN <<1>> ELSE <<>>)

\* For a finite magnitude x, as a natural.
RoundScaled(x, scale) ==
    IF x.m = <<>> THEN <<>>
    ELSE IF x.e >= 0 THEN BShl(BMul(x.m, BFromInt(scale)), x.e)
    ELSE RoundShift(BMul(x.m, BFromInt(scale)), -x.e)

\* Numbers.
Num(np, neg, mag) ==
    [np |-> np, neg |-> neg /\ mag # MNan, m |-> mag.m, e |-> mag.e]

MagOf(x) == Mag(x.m, x.e)

IsZero(x) == MagOf(x) = MZero

\* x > 0.
IsPositive(x) == ~x.neg /\ MagOf(x) \notin {MZero, MNan}

\* The Python float that the literal k * 1e-8 denotes, and the numpy.float64
\* of the same value.
PyFloat(k) == Num(FALSE, k < 0, MFromUnits(IF k < 0 THEN -k ELSE k))

NpFloat(k) == Num(TRUE, k < 0, MFromUnits(IF k < 0 THEN -k ELSE k))

\* abs(x).
FAbs(x) == [x EXCEPT !.neg = FALSE]

\* x + y when the signs differ and neither is a nan, c comparing the
\* magnitudes: the difference with the sign of the greater; of equal
\* magnitudes +0.0, and nan when they are infinite.
Differ(x, y, c) ==
    IF c = 1 THEN Num(x.np \/ y.np, x.neg, MOp("-", MagOf(x), MagOf(y)))
    ELSE Num(x.np \/ y.np, c = -1 /\ y.neg, MOp("-", MagOf(y), MagOf(x)))

\* x + y; the sum is a numpy.float64 when x or y is.  Zeros of one sign keep
\* it, -0.0 + -0.0 is -0.0.
FAdd(x, y) ==
    IF x.neg = y.neg \/ MagOf(x) = MNan \/ MagOf(y) = MNan
    THEN Num(x.np \/ y.np, x.neg, MOp("+", MagOf(x), MagOf(y)))
    ELSE Differ(x, y, MCmp(MagOf(x), MagOf(y)))

(***************************************************************************)
(* html_escape: cgi.escape(text, quote=True) replaces & < > and the double *)
(* quote, in that order, and nothing else.                                 *)
(***************************************************************************)
EscapeChar(c) ==
    CASE c = "&"  -> <<"&", "a", "m", "p", ";">>
      [] c = "<"  -> <<"&", "l", "t", ";">>
      [] c = ">"  -> <<"&", "g", "t", ";">>
      [] c = "\"" -> <<"&", "q", "u", "o", "t", ";">>
      [] OTHER    -> <<c>>

html_escape(text) == Flatten([i \in 1..Len(text) |-> EscapeChar(text[i])])

(***************************************************************************)
(* Elements of the produced markup.                                        *)
(***************************************************************************)
Decl(prop, val) == [prop |-> prop, val |-> val]

SpanEl(style, title, text) ==
    [kind |-> "span", style |-> style, title |-> title, text |-> text]

TextEl(text) == [kind |-> "text", style |-> <<>>, title |-> <<>>, text |-> text]

\* sep.join(parts), each part a sequence of elements (or of characters).
RECURSIVE Join(_, _)
Join(sep, parts) ==
    IF parts = <<>> THEN <<>>
    ELSE IF Len(parts) = 1 THEN parts[1]
    ELSE parts[1] \o sep \o Join(sep, Tail(parts))

(***************************************************************************)
(* Number formatting.                                                      *)
(***************************************************************************)
\* '{:.2f}' of a value given in hundredths.
Format2f(h) == ToString(h \div 100) \o "." \o Pad(h % 100, 100)

\* The natural a in decimal digits, seven at a time.
RECURSIVE Decimal(_)
Decimal(a) ==
    IF Len(a) <= 2 THEN ToString(BToInt(a))
    ELSE LET d == SmallDiv(a, 10000000)
         IN  Decimal(BNorm(d[1])) \o Pad(d[2], 10000000)

\* '{:.2f}' and '{:.3f}' of a float, for a scale of 100 and 1000: nan has
\* no sign, and a negative number that rounds to zero keeps its own.
FormatF(x, scale) ==
    IF MagOf(x) = MNan THEN "nan"
    ELSE (IF x.neg THEN "-" ELSE "")
            \o (IF MagOf(x) = MInf THEN "inf"
                ELSE LET d == SmallDiv(RoundScaled(MagOf(x), scale), scale)
                     IN  Decimal(BNorm(d[1])) \o "." \o Pad(d[2], scale))

\* '{:.3f}' of a weight.
Format3f(w) == FormatF(w, 1000)

\* '{:.2%}' of a value given in hundredths.
FormatPct(h) == ToString(h) \o ".00%"

\* The natural m as an expression in its limbs.
RECURSIVE LimbsText(_, _)
LimbsText(m, i) ==
    IF i = Len(m) THEN ToString(m[i])
    ELSE "(" \o ToString(m[i]) \o "+" \o ToString(LimbBase) \o "*"
            \o LimbsText(m, i + 1) \o ")"

\* The magnitude x > 0 as an expression.
MagText(x) == LimbsText(x.m, 1) \o "*2**" \o ToString(x.e)

(***************************************************************************)
(* The colour mapping.                                                     *)
(***************************************************************************)
EPS == 1

min_opacity == 80

HighlightMinLightness == 60

DefaultMinLightness == 80

\* The outcome of a call: "ok" with the value returned, or the exception
\* raised.
Returned(value) == [status |-> "ok", value |-> value]

Raised(error) == [status |-> error, value |-> <<>>]

\* The floats of the literals 1, 0.8 and 1e-8 (the atol of numpy.isclose).
One == MFromRatio(1, 1)

MinOpacity == MFromRatio(min_opacity, 100)

Atol == MFromUnits(EPS)

\* IsCloseToZero with < for <=: a weight of exactly EPS is not close.
IsBelowTolerance(weight) == MCmp(MagOf(weight), Atol) = -1

\* numpy.isclose(weight, 0.): |weight - 0| <= atol + rtol * |0|, which an
\* infinity and a nan are not.
IsCloseToZero(weight) == MCmp(MagOf(weight), Atol) \in {-1, 0}

_hue(weight) == IF IsPositive(weight) THEN 120 ELSE 0

\* (1 - min_opacity) * rel_weight for rel_weight = abs(weight) / weight_range,
\* a and r being the magnitudes of the two.
OpacityGain(a, r) ==
    MOp("*", MOp("-", One, MinOpacity), MOp("/", a, r))

\* min_opacity + (1 - min_opacity) * rel_weight, operation by operation:
\* rel_weight and the product have the sign of weight_range.
OpacityExact(weight, weight_range) ==
    FormatF(FAdd(Num(FALSE, FALSE, MinOpacity),
                 Num(weight.np \/ weight_range.np, weight_range.neg,
                     OpacityGain(MagOf(weight), MagOf(weight_range)))),
            100)

\* |40 * a - 2 * g * r| * 2^29 <= r * (2^29 - 1), for x = 40 * a,
\* y = 2 * g * r and z = r brought to one exponent: the exact value of
\* 100 * (1 - 0.8) * a / r is within 1/2 - 2^-30 of g.
InsideAt(x, y, z) ==
    BCmp(BShl(IF BCmp(x, y) >= 0 THEN BSub(x, y) ELSE BSub(y, x), 29),
         BSub(BShl(z, 29), z)) <= 0

Inside(a, r, g, e) ==
    InsideAt(BShl(BMulSmall(a.m, 2 * (100 - min_opacity)), a.e - e),
             BShl(BMulSmall(r.m, 2 * g), r.e - e),
             BShl(r.m, r.e - e))

\* x is a normal double: its mantissa has MantissaBits bits (three limbs and
\* eight bits).
Normal(x) == Len(x.m) = 4 /\ x.m[4] >= 128 /\ x.e <= MaxExp

\* The leading 23 bits of the mantissa of a normal double.
Top(x) == x.m[Len(x.m)] * LimbBase + x.m[Len(x.m) - 1]

\* 100 * (1 - 0.8) * a / r to the nearest integer, from the leading bits of
\* a and r, for a <= r.
Guess(a, r) ==
    IF a.m = <<>> \/ r.e - a.e > 30 THEN 0
    ELSE ((2 * (100 - min_opacity) * Top(a)) \div Pow2(r.e - a.e) + Top(r))
            \div (2 * Top(r))

\* The opacity for 0 <= a <= r, a zero or normal and r normal.  The three
\* roundings of the expression and the roundings of its literals move its
\* value by less than 2^-40 hundredths, so a count of hundredths that the
\* exact value is within 1/2 - 2^-30 of is the one the float rounds to.
\* When the exact value is nearer to a tie than that, the expression is
\* evaluated operation by operation.
OpacityNear(weight, weight_range, a, r, g) ==
    IF Inside(a, r, g, IF a.m = <<>> \/ r.e < a.e THEN r.e ELSE a.e)
    THEN Format2f(min_opacity + g)
    ELSE OpacityExact(weight, weight_range)

OpacityOn(weight, weight_range, a, r) ==
    IF ~weight_range.neg /\ Normal(r) /\ (a = MZero \/ Normal(a))
         /\ MCmp(a, r) \in {-1, 0}
    THEN OpacityNear(weight, weight_range, a, r, Guess(a, r))
    ELSE OpacityExact(weight, weight_range)

\* abs(weight) / weight_range over a zero range raises ZeroDivisionError on
\* Python numbers; when either is a numpy float, 0/0 is nan and x/0 is an
\* infinity (a RuntimeWarning, no exception).
_weight_opacity(weight, weight_range) ==
    IF IsZero(weight_range) /\ ~weight.np /\ ~weight_range.np
    THEN Raised("ZeroDivisionError")
    ELSE Returned(OpacityOn(weight, weight_range,
                            MagOf(weight), MagOf(weight_range)))

\* lightness = 1.0 - (1 - min_lightness) * rel_weight ** 0.7, formatted with
\* '{:.2%}', for the magnitudes a and r of weight and weight_range and the
\* magnitude rel_weight of abs(weight) / weight_range.  The power of a nan is
\* nan, of a zero 0.0 and of an infinity inf, whatever the sign, and the
\* lightness is then nan, 1.0 or -inf.  The power of any other negative
\* rel_weight is nan on a numpy float; on a Python float it raises
\* ValueError, or is a complex number that '{:.2%}' raises ValueError on.
\* The power is evaluated at its two rational points, rel_weight 0 and 1;
\* elsewhere the value is kept as the expression in the two magnitudes.
\* The quotient of two normal doubles lies between 2^(a.e - r.e - 1) and
\* 2^(a.e - r.e + 1), and is 1 only when they are equal.
LightnessOn(a, r, negative, python, min_lightness, rel_weight) ==
    IF Normal(a) /\ Normal(r) /\ a.e - r.e < 1000 /\ r.e - a.e < 1000
         /\ (negative \/ a # r)
    THEN (IF ~negative
          THEN Returned("1-(1-0." \o ToString(min_lightness) \o ")*(("
                          \o MagText(a) \o ")/(" \o MagText(r) \o "))**0.7")
          ELSE IF python THEN Raised("ValueError") ELSE Returned("nan%"))
    ELSE CASE rel_weight = MNan  -> Returned("nan%")
           [] rel_weight = MZero -> Returned(FormatPct(100))
           [] rel_weight = MInf  -> Returned("-inf%")
           [] rel_weight = One /\ ~negative ->
                Returned(FormatPct(min_lightness))
           [] OTHER ->
                IF ~negative
                THEN Returned("1-(1-0." \o ToString(min_lightness) \o ")*(("
                                \o MagText(a) \o ")/(" \o MagText(r)
                                \o "))**0.7")
                ELSE IF python THEN Raised("ValueError")
                ELSE Returned("nan%")

\* rel_weight is abs(weight) / weight_range: over a zero range the division
\* raises on Python numbers, as in _weight_opacity.
Lightness(weight, weight_range, min_lightness) ==
    IF IsZero(weight_range) /\ ~weight.np /\ ~weight_range.np
    THEN Raised("ZeroDivisionError")
    ELSE LightnessOn(MagOf(weight), MagOf(weight_range), weight_range.neg,
                     ~weight.np /\ ~weight_range.np, min_lightness,
                     MOp("/", MagOf(weight), MagOf(weight_range)))

\* 'hsl({}, {:.2%}, {:.2%})'.format(hue, saturation, lightness).
_weight_color(weight, weight_range, min_lightness) ==
    LET lightness == Lightness(weight, weight_range, min_lightness)
    IN  IF lightness.status = "ok"
        THEN Returned(<<"hsl", ToString(_hue(weight)), FormatPct(100),
                        lightness.value>>)
        ELSE lightness

(***************************************************************************)
(* _colorize: the token in a span styled from weight and weight_range.     *)
(***************************************************************************)
\* The span, or the exception of the first argument of format that raised.
Colorized(token, close, opacity, color, title) ==
    IF close
    THEN (IF opacity.status = "ok"
          THEN Returned(SpanEl(<<Decl("opacity", <<opacity.value>>)>>,
                               <<>>, token))
          ELSE opacity)
    ELSE IF color.status # "ok" THEN color
    ELSE IF opacity.status # "ok" THEN opacity
    ELSE Returned(SpanEl(<<Decl("background-color", color.value),
                           Decl("opacity", <<opacity.value>>)>>,
                         <<title>>, token))

_colorize(token, weight, weight_range) ==
    Colorized(html_escape(token), IsCloseToZero(weight),
              _weight_opacity(weight, weight_range),
              _weight_color(weight, weight_range, HighlightMinLightness),
              Format3f(weight))

(***************************************************************************)
(* Python's order of strings: lexicographic by code point.                 *)
(***************************************************************************)
Ord(c) ==
    CASE c = " "  -> 32
      [] c = "\"" -> 34
      [] c = "&"  -> 38
      [] c = "'"  -> 39
      [] c = "<"  -> 60
      [] c = ">"  -> 62
      [] c = "a"  -> 97
      [] c = "b"  -> 98
      [] c = "f"  -> 102

RECURSIVE StrLess(_, _)
StrLess(s, t) ==
    IF t = <<>> THEN FALSE
    ELSE IF s = <<>> THEN TRUE
    ELSE IF Ord(Head(s)) # Ord(Head(t)) THEN Ord(Head(s)) < Ord(Head(t))
    ELSE StrLess(Tail(s), Tail(t))

\* (feature, weight) tuples compare by feature first; the features of one
\* mapping are distinct.
RECURSIVE InsertSorted(_, _)
InsertSorted(item, sorted) ==
    IF sorted = <<>> THEN <<item>>
    ELSE IF StrLess(item[1], Head(sorted)[1]) THEN <<item>> \o sorted
    ELSE <<Head(sorted)>> \o InsertSorted(item, Tail(sorted))

\* Sorted without the sort: the items in the order the mapping yields them.
Unsorted(items) == items

RECURSIVE Sorted(_)
Sorted(items) ==
    IF items = <<>> THEN <<>>
    ELSE InsertSorted(Head(items), Sorted(Tail(items)))

RECURSIVE SelectSeqOf(_, _)
SelectSeqOf(items, keep) ==
    IF items = <<>> THEN <<>>
    ELSE (IF Head(items) \in keep THEN <<Head(items)>> ELSE <<>>)
            \o SelectSeqOf(Tail(items), keep)

(***************************************************************************)
(* Span aggregation: char_weights[start:end] += weight on a numpy array.   *)
(***************************************************************************)
\* A slice bound as Python normalises it for a sequence of length n:
\* a negative bound counts from the end, and the result is clipped to 0..n.
SliceBound(i, n) ==
    IF i < 0 THEN (IF i + n < 0 THEN 0 ELSE i + n)
    ELSE IF i > n THEN n ELSE i

\* The positions (1-based) that the slice [start:end] selects.
SliceIndices(start, end, n) ==
    {k \in 1..n : SliceBound(start, n) < k /\ k <= SliceBound(end, n)}

\* AddRange with = for +=: the weight is stored, not added.
AddRangeAssigning(cw, range, weight) ==
    [k \in 1..Len(cw) |->
        IF k \in SliceIndices(range[1], range[2], Len(cw))
        THEN [weight EXCEPT !.np = TRUE] ELSE cw[k]]

\* Each element of the slice becomes the float sum of itself and the weight.
AddRange(cw, range, weight) ==
    [k \in 1..Len(cw) |->
        IF k \in SliceIndices(range[1], range[2], Len(cw))
        THEN FAdd(cw[k], weight) ELSE cw[k]]

RECURSIVE AddSpan(_, _, _)
AddSpan(cw, spans, weight) ==
    IF spans = <<>> THEN cw
    ELSE AddSpan(AddRange(cw, Head(spans), weight), Tail(spans), weight)

RECURSIVE Aggregate(_, _)
Aggregate(cw, weighted_spans) ==
    IF weighted_spans = <<>> THEN cw
    ELSE Aggregate(AddSpan(cw, Head(weighted_spans).spans,
                           PyFloat(Head(weighted_spans).weight)),
                   Tail(weighted_spans))

\* np.zeros(len(doc)), then the spans added.
CharWeights(data) ==
    Aggregate([k \in 1..Len(data.document) |-> NpFloat(0)],
              data.weighted_spans)

(***************************************************************************)
(* max and min as Python takes them: the first of the greatest (least).    *)
(* An element takes the place of the best so far only when it compares     *)
(* greater (less), which a nan never does and nothing does with a nan.     *)
(***************************************************************************)
RECURSIVE MaxFrom(_, _, _)
MaxFrom(xs, i, best) ==
    IF i > Len(xs) THEN best
    ELSE MaxFrom(xs, i + 1,
                 IF MCmp(MagOf(xs[i]), MagOf(best)) = 1 THEN xs[i] ELSE best)

\* max(xs) for xs not empty and none of it negative.
MaxFirst(xs) == MaxFrom(xs, 2, xs[1])

\* max(abs(x) for x in ws), ws not empty.
MaxAbs(ws) == MaxFirst([i \in 1..Len(ws) |-> FAbs(ws[i])])

RECURSIVE MinFrom(_, _, _)
MinFrom(xs, i, best) ==
    IF i > Len(xs) THEN best
    ELSE MinFrom(xs, i + 1,
                 IF MCmp(MagOf(xs[i]), MagOf(best)) = -1 THEN xs[i] ELSE best)

\* min(xs, key=abs), xs not empty.
MinByAbs(xs) == MinFrom(xs, 2, xs[1])

(***************************************************************************)
(* render_weighted_spans.  The weights of weighted_spans_data are counts   *)
(* of units of 1e-8, each standing for a Python float; not_found_weights   *)
(* holds the floats.                                                       *)
(***************************************************************************)
\* sorted((feature, weight) for ... in not_found.items()
\*        if not np.isclose(weight, 0.))
Kept(items) ==
    Sorted(SelectSeqOf(items,
                       {it \in {items[i] : i \in 1..Len(items)} :
                            ~IsCloseToZero(it[2])}))

NotFoundWeights(not_found_items) ==
    Kept([i \in 1..Len(not_found_items) |->
            <<not_found_items[i][1], PyFloat(not_found_items[i][2])>>])

\* max(weight_range, max(abs(w) for _, w in not_found_weights)): the second
\* when it is the greater.
Greater(doc_range, nf_range) ==
    IF MCmp(MagOf(nf_range), MagOf(doc_range)) = 1
    THEN nf_range ELSE doc_range

WeightRange(cw, not_found_weights) ==
    IF not_found_weights = <<>> THEN MaxAbs(cw)
    ELSE Greater(MaxAbs(cw),
                 MaxAbs([i \in 1..Len(not_found_weights) |->
                            not_found_weights[i][2]]))

\* The locals of a call and its outcome.  A local that was never bound is
\* the empty sequence, a bound one the sequence of its value.
Frame(status, out, cw, not_found_weights, weight_range) ==
    [status |-> status, out |-> out, char_weights |-> cw,
     not_found_weights |-> not_found_weights, weight_range |-> weight_range]

\* The exceptions that a sequence of outcomes holds, in order.
RECURSIVE Raises(_)
Raises(outcomes) ==
    IF outcomes = <<>> THEN <<>>
    ELSE (IF Head(outcomes).status = "ok" THEN <<>>
          ELSE <<Head(outcomes).status>>) \o Raises(Tail(outcomes))

\* ' '.join(hl_doc) of the tokens' spans, or the first exception among them.
Highlight(nf_tokens, doc_tokens, cw, not_found_weights, weight_range) ==
    IF Raises(nf_tokens \o doc_tokens) # <<>>
    THEN Frame(Raises(nf_tokens \o doc_tokens)[1], <<>>, cw,
               not_found_weights, <<weight_range>>)
    ELSE Frame("ok",
               Join(<<TextEl(<<" ">>)>>,
                    (IF nf_tokens # <<>>
                     THEN <<Join(<<TextEl(<<" ">>)>>,
                                 [i \in 1..Len(nf_tokens) |->
                                     <<nf_tokens[i].value>>])>>
                     ELSE <<>>)
                       \o <<[i \in 1..Len(doc_tokens) |->
                                doc_tokens[i].value]>>),
               cw, not_found_weights, <<weight_range>>)

Render(doc, cw, not_found_weights, weight_range) ==
    Highlight([i \in 1..Len(not_found_weights) |->
                  _colorize(not_found_weights[i][1],
                            not_found_weights[i][2], weight_range)],
              [i \in 1..Len(doc) |->
                  _colorize(<<doc[i]>>, cw[i], weight_range)],
              cw, not_found_weights, weight_range)

RenderFrom(doc, cw, not_found_weights) ==
    IF cw = <<>>
    THEN \* max() of an empty sequence
         Frame("ValueError", <<>>, cw, not_found_weights, <<>>)
    ELSE Render(doc, cw, not_found_weights,
                WeightRange(cw, not_found_weights))

\* data.not_found is the mapping's items() in the order the dict yields them.
render_weighted_spans(data) ==
    RenderFrom(data.document, CharWeights(data),
               NotFoundWeights(data.not_found))

(***************************************************************************)
(* Feature formatting.                                                     *)
(***************************************************************************)
\* The span that replaces a run of n_spaces spaces (the replacer closure of
\* _format_single_feature).  margin: top right bottom left.
Replacer(n_spaces, side, weight) ==
    LET m == "0.1em"
        margins == CASE side = "left"   -> <<m, "0">>
                     [] side = "right"  -> <<"0", m>>
                     [] side = "center" -> <<m, m>>
    IN  SpanEl(<<Decl("background-color",
                      <<"hsl", ToString(_hue(weight)), "80%", "70%">>),
                 Decl("margin", <<"0", margins[1], "0", margins[2]>>)>>,
               <<IF n_spaces = 1 THEN "A space symbol"
                 ELSE ToString(n_spaces) \o " space symbols">>,
               [i \in 1..n_spaces |-> "&emsp;"])

\* The length of the run of spaces of s that starts at position i.
RECURSIVE SpaceRun(_, _)
SpaceRun(s, i) ==
    IF i > Len(s) \/ s[i] # " " THEN 0 ELSE 1 + SpaceRun(s, i + 1)

\* The length of the run of other characters of s that starts at position i.
RECURSIVE TextRun(_, _)
TextRun(s, i) ==
    IF i > Len(s) \/ s[i] = " " THEN 0 ELSE 1 + TextRun(s, i + 1)

\* replace_spaces(s, replacer): every maximal run of spaces is replaced by
\* replacer(length, side), side being left for a run at the start of s,
\* right for a run reaching its end, center otherwise.
RECURSIVE ReplaceFrom(_, _, _)
ReplaceFrom(s, i, weight) ==
    IF i > Len(s) THEN <<>>
    ELSE IF s[i] = " "
    THEN LET n == SpaceRun(s, i)
             side == IF i = 1 THEN "left"
                     ELSE IF i + n - 1 = Len(s) THEN "right"
                     ELSE "center"
         IN  <<Replacer(n, side, weight)>> \o ReplaceFrom(s, i + n, weight)
    ELSE LET n == TextRun(s, i)
         IN  <<TextEl(SubSeq(s, i, i + n - 1))>> \o ReplaceFrom(s, i + n, weight)

replace_spaces(s, weight) == ReplaceFrom(s, 1, weight)

_format_single_feature(feature, weight) ==
    replace_spaces(html_escape(feature), weight)

\* format_signed(feature, formatter): the name, formatted, after "(-)" when
\* the sign is not positive.
SignMarker(feature) ==
    IF feature.sign > 0 THEN <<>> ELSE <<"(", "-", ")">>

\* format_signed(f): no formatter, plain text.
format_signed(feature) == SignMarker(feature) \o feature.name

\* format_signed(first, lambda x: _format_single_feature(x, weight)).
format_signed_with(feature, weight) ==
    (IF SignMarker(feature) = <<>> THEN <<>>
     ELSE <<TextEl(SignMarker(feature))>>)
        \o _format_single_feature(feature.name, weight)

\* RestOf with feature[0:]: the first candidate stays in the rest.
RestWithFirst(feature) == feature

\* feature[1:], the candidates after the first.
RestOf(feature) == Tail(feature)

_format_unhashed_feature(feature, weight) ==
    IF feature = <<>> THEN <<>>
    ELSE LET first == Head(feature)
             rest == RestOf(feature)
             html == format_signed_with(first, weight)
         IN  IF rest # <<>>
             THEN html \o <<TextEl(<<" ">>),
                            SpanEl(<<>>,
                                   Join(<<"\n">>,
                                        [i \in 1..Len(rest) |->
                                            html_escape(format_signed(rest[i]))]),
                                   <<"&hellip;">>)>>
             ELSE html

\* The outcome of a call: "ok" with the markup returned, or the exception
\* raised.
FeatureResult(status, html) == [status |-> status, html |-> html]

\* all('name' in x and 'sign' in x for x in feature).
HasNameAndSign(candidates) ==
    \A i \in 1..Len(candidates) :
        {"name", "sign"} \subseteq DOMAIN candidates[i]

\* A feature is [is_list |-> FALSE, name |-> text] or
\* [is_list |-> TRUE, candidates |-> sequence of records].  A list with an
\* item that lacks a key goes to _format_single_feature as it is, and
\* html_escape fails on it: cgi.escape calls replace on its argument, which a
\* list has not.
_format_feature(feature, weight) ==
    IF feature.is_list /\ HasNameAndSign(feature.candidates)
    THEN FeatureResult("ok",
                       _format_unhashed_feature(feature.candidates, weight))
    ELSE IF feature.is_list
    THEN FeatureResult("AttributeError", <<>>)
    ELSE FeatureResult("ok", _format_single_feature(feature.name, weight))

(***************************************************************************)
(* The template filters.  A list of weights that is empty is replaced by   *)
(* [0], the Python integer.                                                *)
(***************************************************************************)
\* xs or [0].
OrZero(xs) == IF xs = <<>> THEN <<Num(FALSE, FALSE, MZero)>> ELSE xs

\* weights.get(key, []).
Get(weights, key) == IF key \in DOMAIN weights THEN weights[key] ELSE <<>>

\* [abs(x[1]) for x in w].
fi_weight_range(w) == MaxFirst(OrZero([i \in 1..Len(w) |-> FAbs(w[i][2])]))

\* [abs(coef) for key in ['pos', 'neg'] for _, coef in weights.get(key, [])].
_weight_range(weights) ==
    fi_weight_range(Get(weights, "pos") \o Get(weights, "neg"))

weight_color(w, w_range) == _weight_color(w, w_range, DefaultMinLightness)

smallest_weight_color(ws, w_range) ==
    _weight_color(MinByAbs(OrZero([i \in 1..Len(ws) |-> ws[i][2]])), w_range,
                  DefaultMinLightness)

(***************************************************************************)
(* format_as_html.  The heap maps object ids to dicts; the caller's        *)
(* explanation is the dict at CallerRef.                                   *)
(***************************************************************************)
FieldsALL == {"method", "description", "targets", "feature_importances"}

CallerRef == 1

Restrict(d, keys) == [k \in (DOMAIN d) \cap keys |-> d[k]]

\* DeepCopy without the copy: the caller's own object.
NoCopy(h, ref) == <<h, ref>>

\* copy.deepcopy(explanation): a new object, equal to the old one.
\* <<heap with the new object, its id>>
DeepCopy(h, ref) ==
    LET new == 1 + Cardinality(DOMAIN h)
    IN  <<[r \in (DOMAIN h) \cup {new} |-> IF r = new THEN h[ref] ELSE h[r]],
     new>>

\* for field in fields.ALL: if field not in show: explanation.pop(field, None)
PopUnshown(h, ref, show) ==
    [h EXCEPT ![ref] = Restrict(h[ref], (DOMAIN h[ref]) \ (FieldsALL \ show))]

\* The keyword arguments that format_as_html itself gives to
\* template.render.
Keywords(include_styles, force_weights) ==
    [include_styles |-> include_styles,
     force_weights |-> force_weights,
     table_styles |-> "border-collapse: collapse; border: none;",
     tr_styles |-> "border: none;",
     td1_styles |-> "padding: 0 1em 0 0.5em; text-align: right; border: none;",
     tdm_styles |-> "padding: 0 0.5em 0 0.5em; text-align: center; border: none;",
     td2_styles |-> "padding: 0 0.5em 0 0.5em; text-align: left; border: none;"]

\* template.render(include_styles=..., ..., **explanation): a key of the
\* explanation that is one of the keywords is a keyword given twice, and the
\* call raises TypeError before render is entered.
TemplateRender(keywords, explanation) ==
    IF (DOMAIN keywords) \cap (DOMAIN explanation) # {}
    THEN [status |-> "TypeError", keywords |-> <<>>, explanation |-> <<>>]
    ELSE [status |-> "ok", keywords |-> keywords, explanation |-> explanation]

\* <<the heap after the call, what template.render was given or the
\* exception raised>>
format_as_html(h, ref, include_styles, force_weights, show) ==
    LET copied == DeepCopy(h, ref)
        popped == PopUnshown(copied[1], copied[2], show)
    IN  <<popped,
          TemplateRender(Keywords(include_styles, force_weights),
                         popped[copied[2]])>>

(***************************************************************************)
(* The inputs of the calls.                                                *)
(***************************************************************************)
DocChars == {"a", "&", "<", ">", "\"", "'"}

FeatureChars == DocChars \cup {" "}

SpanWeightValues == {-159999, 160000}

NotFoundNames == {<<"f">>, <<"<">>}

NotFoundWeightValues == {-320000, 0, 1, 2}

FeatureWeightValues == {-160000, 160000}

CandidateNames == {<<"a">>, <<"<">>, <<"'", " ">>}

\* The fields, a key that is no field, and a key that is also a keyword of
\* template.render.
ExplanationKeys == FieldsALL \cup {"estimator", "include_styles"}

AllRanges(n) == (-1..(n + 1)) \X (-1..(n + 1))

WellFormed(range, n) == 0 <= range[1] /\ range[1] <= range[2] /\ range[2] <= n

Malformed(ranges, n) == {i \in 1..Len(ranges) : ~WellFormed(ranges[i], n)}

\* The span list that groups the ranges into spans: a span starts at each
\* position of `starts` and has the weight given for that position.
RECURSIVE SpansFrom(_, _, _, _)
SpansFrom(ranges, starts, weights, i) ==
    IF i > Len(ranges) THEN <<>>
    ELSE LET last == CHOOSE j \in i..Len(ranges) :
                        /\ \A k \in (i + 1)..j : k \notin starts
                        /\ j = Len(ranges) \/ (j + 1) \in starts
         IN  <<[feature |-> <<"f">>, spans |-> SubSeq(ranges, i, last),
                weight |-> weights[i]]>>
                 \o SpansFrom(ranges, starts, weights, last + 1)

\* The ways to start spans among t ranges: the first range starts one.
SpanStarts(t) == {starts \in SUBSET (1..t) : t > 0 => 1 \in starts}

\* The lists of t ranges over a document of length n, `bad` of them
\* malformed.
RangeLists(n, t, bad) ==
    {ranges \in [1..t -> AllRanges(n)] : Cardinality(Malformed(ranges, n)) = bad}

PlainDocument(n) == [i \in 1..n |-> "a"]

NotFoundItems ==
    {items \in SeqsUpTo(NotFoundNames \X NotFoundWeightValues,
                        Cardinality(NotFoundNames)) :
        \A i, j \in 1..Len(items) : i # j => items[i][1] # items[j][1]}

\* No not-found feature, or one to show.
FewNotFound == {<<>>, <<<<<<"<">>, -320000>>>>}

\* No span, one span over the whole document, or (two units on) one span on
\* the first unit and one on the rest.
TextSpans(n) ==
    {<<>>, <<[feature |-> <<"f">>, spans |-> <<<<0, n>>>>, weight |-> 160000]>>}
    \cup
    (IF n < 2 THEN {}
     ELSE {<<[feature |-> <<"f">>, spans |-> <<<<0, 1>>>>, weight |-> -1],
             [feature |-> <<"b">>, spans |-> <<<<1, n>>>>, weight |-> 160000]>>})

\* Lists with an item that has no sign, or no name.
KeylessLists ==
    {<<[name |-> <<"a">>]>>,
     <<[name |-> <<"a">>, sign |-> 1], [sign |-> -1]>>}

FeatureInputs ==
    {[is_list |-> FALSE, name |-> name, candidates |-> <<>>] :
        name \in SeqsUpTo(FeatureChars, MaxNameLen)}
    \cup
    {[is_list |-> TRUE, name |-> <<>>, candidates |-> cs] :
        cs \in SeqsUpTo([name : CandidateNames, sign : {-1, 1}], MaxCandidates)}
    \cup
    {[is_list |-> TRUE, name |-> <<>>, candidates |-> cs] : cs \in KeylessLists}

\* The coefficients given to the colour filters: Python floats and numpy
\* floats.
FilterCoefs == {PyFloat(0), PyFloat(-160000), NpFloat(0), NpFloat(320000)}

FilterItems == {<<"a">>} \X FilterCoefs

\* The weights of a target: the features of positive and of negative
\* coefficient, either key possibly missing.
WeightsInputs ==
    UNION {[keys -> SeqsUpTo(FilterItems, 1)] : keys \in SUBSET {"pos", "neg"}}

ExplanationInputs ==
    {[k \in keys |-> "value of " \o k] : keys \in SUBSET ExplanationKeys}

(***************************************************************************)
(* The state machine: a caller makes one call at a time.                   *)
(***************************************************************************)
NoFrame == Frame("none", <<>>, <<>>, <<>>, <<>>)

NoData == [document |-> <<>>, weighted_spans |-> <<>>, not_found |-> <<>>]

NoFeature == [is_list |-> FALSE, name |-> <<>>, candidates |-> <<>>]

NoResult == FeatureResult("none", <<>>)

NoArgs == [w |-> <<>>, weights |-> <<>>]

NoColor == Raised("none")

NoContext == [status |-> "none", keywords |-> <<>>, explanation |-> <<>>]

Init ==
    /\ op = "idle"
    /\ weighted_spans_data = NoData
    /\ frame = NoFrame
    /\ feature_arg = NoFeature
    /\ weight_arg = 0
    /\ feature_result = NoResult
    /\ filter_args = NoArgs
    /\ color_result = NoColor
    /\ explanation_arg = <<>>
    /\ show_arg = {}
    /\ heap = [r \in {CallerRef} |-> <<>>]
    /\ context = NoContext

Called(data) ==
    /\ weighted_spans_data' = data
    /\ frame' = render_weighted_spans(data)

\* The caller's inputs are of four kinds.  For the aggregation, a plain
\* document under every span list of at most MaxTotalRanges well-formed
\* ranges, and under every span of such ranges but one that is malformed.
\* For the rendering, under a few plain span lists, every document with a
\* not-found feature or none, and a plain document with every not-found
\* mapping in every iteration order.
RenderWeightedSpans ==
    /\ op = "idle"
    /\ \/ \E n \in 0..MaxDocLen, t \in 0..MaxTotalRanges :
            \E ranges \in RangeLists(n, t, 0), starts \in SpanStarts(t) :
              \E weights \in [starts -> SpanWeightValues] :
                Called([document |-> PlainDocument(n),
                        weighted_spans |-> SpansFrom(ranges, starts, weights, 1),
                        not_found |-> <<>>])
       \/ \E n \in 0..MaxDocLen, t \in 1..MaxTotalRanges :
            \E ranges \in RangeLists(n, t, 1), weight \in SpanWeightValues :
                Called([document |-> PlainDocument(n),
                        weighted_spans |->
                            <<[feature |-> <<"f">>, spans |-> ranges,
                               weight |-> weight]>>,
                        not_found |-> <<>>])
       \/ \E doc \in SeqsUpTo(DocChars, MaxDocLen), items \in FewNotFound :
            \E ws \in TextSpans(Len(doc)) :
                Called([document |-> doc, weighted_spans |-> ws,
                        not_found |-> items])
       \/ \E n \in 0..MaxDocLen, items \in NotFoundItems :
            \E ws \in TextSpans(n) :
                Called([document |-> PlainDocument(n), weighted_spans |-> ws,
                        not_found |-> items])
    /\ op' = "render_weighted_spans"
    /\ UNCHANGED <<feature_arg, weight_arg, feature_result, filter_args,
                   color_result, explanation_arg, show_arg, heap, context>>

FormatFeature ==
    /\ op = "idle"
    /\ \E feature \in FeatureInputs, weight \in FeatureWeightValues :
          /\ feature_arg' = feature
          /\ weight_arg' = weight
          /\ feature_result' = _format_feature(feature, PyFloat(weight))
    /\ op' = "format_feature"
    /\ UNCHANGED <<weighted_spans_data, frame, filter_args, color_result,
                   explanation_arg, show_arg, heap, context>>

\* {{ w|weight_color(weights|weight_range) }}: the colour of a coefficient
\* within the range of a target's weights.
WeightColor ==
    /\ op = "idle"
    /\ \E w \in FilterCoefs, weights \in WeightsInputs :
          /\ filter_args' = [w |-> <<w>>, weights |-> weights]
          /\ color_result' = weight_color(w, _weight_range(weights))
    /\ op' = "weight_color"
    /\ UNCHANGED <<weighted_spans_data, frame, feature_arg, weight_arg,
                   feature_result, explanation_arg, show_arg, heap, context>>

\* {{ ws|smallest_weight_color(ws|fi_weight_range) }}: the colour of the
\* smallest of the feature importances within their range.
SmallestWeightColor ==
    /\ op = "idle"
    /\ \E ws \in SeqsUpTo(FilterItems, 2) :
          /\ filter_args' = [w |-> <<>>, weights |-> ws]
          /\ color_result' = smallest_weight_color(ws, fi_weight_range(ws))
    /\ op' = "smallest_weight_color"
    /\ UNCHANGED <<weighted_spans_data, frame, feature_arg, weight_arg,
                   feature_result, explanation_arg, show_arg, heap, context>>

FormatAsHtml ==
    /\ op = "idle"
    /\ \E explanation \in ExplanationInputs, show \in SUBSET FieldsALL,
          include_styles \in BOOLEAN, force_weights \in BOOLEAN :
          LET before == [heap EXCEPT ![CallerRef] = explanation]
              after == format_as_html(before, CallerRef, include_styles,
                                      force_weights, show)
          IN  /\ explanation_arg' = explanation
              /\ show_arg' = show
              /\ heap' = after[1]
              /\ context' = after[2]
    /\ op' = "format_as_html"
    /\ UNCHANGED <<weighted_spans_data, frame, feature_arg, weight_arg,
                   feature_result, filter_args, color_result>>

\* The caller drops what the call gave and is ready for the next call.
Return ==
    /\ op # "idle"
    /\ op' = "idle"
    /\ weighted_spans_data' = NoData
    /\ frame' = NoFrame
    /\ feature_arg' = NoFeature
    /\ weight_arg' = 0
    /\ feature_result' = NoResult
    /\ filter_args' = NoArgs
    /\ color_result' = NoColor
    /\ explanation_arg' = <<>>
    /\ show_arg' = {}
    /\ heap' = [r \in {CallerRef} |-> <<>>]
    /\ context' = NoContext

Next ==
    \/ RenderWeightedSpans
    \/ FormatFeature
    \/ WeightColor
    \/ SmallestWeightColor
    \/ FormatAsHtml
    \/ Return

Spec == Init /\ [][Next]_vars

(***************************************************************************)
(* What the claims speak of.                                               *)
(***************************************************************************)
Rendering == op = "render_weighted_spans"

DocLen == Len(weighted_spans_data.document)

\* Every range of every span satisfies 0 <= start <= end <= N.
InputWellFormed ==
    \A s \in 1..Len(weighted_spans_data.weighted_spans) :
        Malformed(weighted_spans_data.weighted_spans[s].spans, DocLen) = {}

\* The half-open range [start, end) covers index i (0-based).
Covers(range, i) == range[1] <= i /\ i < range[2]

\* The (span, range) positions whose range covers index i.
CoveringRanges(i) ==
    UNION { { <<s, r>> :
                r \in {q \in 1..Len(weighted_spans_data.weighted_spans[s].spans) :
                         Covers(weighted_spans_data.weighted_spans[s].spans[q], i)} }
            : s \in 1..Len(weighted_spans_data.weighted_spans) }

\* The spans that have a range covering index i, each once.
CoveringSpans(i) == {<<sr[1], 0>> : sr \in CoveringRanges(i)}

RECURSIVE Repeated(_, _)
Repeated(s, n) == IF n = 0 THEN <<>> ELSE <<s>> \o Repeated(s, n - 1)

\* The spans from the s-th on, in the order of the list: each as many times
\* as it has ranges covering index i, or once if it has any.
RECURSIVE SpansInOrder(_, _, _)
SpansInOrder(i, s, once) ==
    IF s > Len(weighted_spans_data.weighted_spans) THEN <<>>
    ELSE Repeated(s, IF once
                     THEN Cardinality({sr \in CoveringSpans(i) : sr[1] = s})
                     ELSE Cardinality({sr \in CoveringRanges(i) : sr[1] = s}))
            \o SpansInOrder(i, s + 1, once)

\* The float sum, from the k-th on and in their order, of the weights of
\* the spans listed.
RECURSIVE SumFrom(_, _, _)
SumFrom(list, k, acc) ==
    IF k > Len(list) THEN acc
    ELSE SumFrom(list, k + 1,
                 FAdd(acc, PyFloat(weighted_spans_data
                                       .weighted_spans[list[k]].weight)))

SumOfWeights(list) == SumFrom(list, 1, NpFloat(0))

\* C1, as stated: on well-formed input the array of char weights has length
\* N and array[i] is the (float) sum of the weights of the spans that have a
\* range covering i, each span counted once, also when its own ranges
\* overlap.
C1_SumOfCoveringSpans ==
    (Rendering /\ InputWellFormed) =>
        /\ Len(frame.char_weights) = DocLen
        /\ \A i \in 0..(DocLen - 1) :
               frame.char_weights[i + 1] = SumOfWeights(SpansInOrder(i, 1, TRUE))

\* C1, amended: on well-formed input the array of char weights has length N
\* and array[i] is the (float) sum, over every range of every span that
\* covers i and in the order of the list, of the span's weight: a span
\* counts once for each of its ranges covering i.
C1_SumOverCoveringRanges ==
    (Rendering /\ InputWellFormed) =>
        /\ Len(frame.char_weights) = DocLen
        /\ \A i \in 0..(DocLen - 1) :
               frame.char_weights[i + 1] = SumOfWeights(SpansInOrder(i, 1, FALSE))

\* C1's case: a well-formed input in which two ranges of one span cover the
\* same index has been aggregated.
C1_Witness ==
    /\ Rendering /\ InputWellFormed
    /\ \E i \in 0..(DocLen - 1) :
          /\ Cardinality(CoveringRanges(i)) >= 2
          /\ Cardinality(CoveringSpans(i)) = 1
          /\ ~IsZero(frame.char_weights[i + 1])

\* C2: a range that violates 0 <= start <= end <= N makes the aggregation
\* fail (with a validation error): no rendering is returned for such input.
C2_MalformedRangeFails ==
    (Rendering /\ ~InputWellFormed) => frame.status # "ok"

\* The span elements of markup, in order.
SpansOf(out) == SelectSeq(out, LAMBDA el : el.kind = "span")

AllZero(ws) == \A i \in 1..Len(ws) : IsZero(ws[i])

\* C3: an all-zero array of char weights (of a document that has units)
\* with no not-found feature gives weight range 0 and a rendering returned
\* in which every unit has opacity min_opacity (0.80) and no other style.
C3_AllZeroRendersAtMinOpacity ==
    (/\ Rendering
     /\ frame.char_weights # <<>>
     /\ AllZero(frame.char_weights)
     /\ weighted_spans_data.not_found = <<>>) =>
        /\ frame.status = "ok"
        /\ Len(frame.weight_range) = 1 /\ IsZero(frame.weight_range[1])
        /\ Len(SpansOf(frame.out)) = DocLen
        /\ \A i \in 1..Len(frame.out) :
               frame.out[i].style = <<Decl("opacity", <<Format2f(min_opacity)>>)>>

\* The opacities from min_opacity to 1, as formatted.
OpacitiesInRange == {Format2f(h) : h \in min_opacity..100}

OpacityOf(el) ==
    LET i == CHOOSE j \in 1..Len(el.style) : el.style[j].prop = "opacity"
    IN  el.style[i].val[1]

\* C4: the weight range (of a document that has units) is the largest |w|
\* among the char weights and the not-found weights beyond the tolerance, so
\* every rendered token has |w| <= weight range and an opacity within
\* [min_opacity, 1].
C4_RangeBoundsEveryToken ==
    (Rendering /\ frame.char_weights # <<>>) =>
        LET nf == {it \in {weighted_spans_data.not_found[i] :
                             i \in 1..Len(weighted_spans_data.not_found)} :
                        Abs(it[2]) > EPS}
            all == {MagOf(frame.char_weights[i]) : i \in 1..DocLen}
                        \cup {MFromUnits(Abs(it[2])) : it \in nf}
        IN  /\ frame.status = "ok"
            /\ MagOf(frame.weight_range[1]) \in all
            /\ \A w \in all : MCmp(w, MagOf(frame.weight_range[1])) <= 0
            /\ \A i \in 1..Len(SpansOf(frame.out)) :
                   OpacityOf(SpansOf(frame.out)[i]) \in OpacitiesInRange

\* The not-found features whose |weight| is beyond the tolerance.
BeyondTolerance ==
    {it \in {weighted_spans_data.not_found[i] :
                i \in 1..Len(weighted_spans_data.not_found)} : Abs(it[2]) > EPS}

\* The not-found features whose |weight| is at least the tolerance.
AtLeastTolerance ==
    {it \in {weighted_spans_data.not_found[i] :
                i \in 1..Len(weighted_spans_data.not_found)} : Abs(it[2]) >= EPS}

\* The features of a set in ascending order of feature id.
Ascending(items) ==
    CHOOSE seq \in [1..Cardinality(items) -> items] :
        \A i, j \in 1..Cardinality(items) :
            i < j => StrLess(seq[i][1], seq[j][1])

\* The markup is the block of the shown features, one span each and one
\* space between two, then one space, then one span a unit of the document;
\* or the spans of the units alone when no feature is shown.
LaidOut(out, shown) ==
    LET m == Len(shown)
        doc == weighted_spans_data.document
        lead == IF m = 0 THEN 0 ELSE 2 * m
    IN  /\ Len(out) = lead + Len(doc)
        /\ \A j \in 1..m :
               /\ out[2 * j - 1].kind = "span"
               /\ out[2 * j - 1].text = html_escape(shown[j][1])
               /\ out[2 * j] = TextEl(<<" ">>)
        /\ \A i \in 1..Len(doc) :
               /\ out[lead + i].kind = "span"
               /\ out[lead + i].text = html_escape(<<doc[i]>>)

\* C5, as stated: the output is the block of the not-found features with
\* |weight| >= EPS in ascending feature id order, single spaces between,
\* one space, and the units' renderings; the units' renderings alone when
\* that block is empty.
C5_LayoutFromToleranceOn ==
    (Rendering /\ frame.status = "ok") =>
        LaidOut(frame.out, Ascending(AtLeastTolerance))

\* C5, amended: the same layout, the block holding the not-found features
\* with |weight| > EPS (a weight of exactly EPS is close to zero and is left
\* out).
C5_LayoutBeyondTolerance ==
    (Rendering /\ frame.status = "ok") =>
        LaidOut(frame.out, Ascending(BeyondTolerance))

\* C5's case: a rendering of a mapping that yields two features to show in
\* descending order of feature id.
C5_Witness ==
    /\ Rendering /\ frame.status = "ok"
    /\ Cardinality(BeyondTolerance) = 2
    /\ Len(weighted_spans_data.not_found) = 2
    /\ StrLess(weighted_spans_data.not_found[2][1],
               weighted_spans_data.not_found[1][1])
    /\ DocLen > 0

Entities ==
    {<<"&", "a", "m", "p", ";">>, <<"&", "l", "t", ";">>,
     <<"&", "g", "t", ";">>, <<"&", "q", "u", "o", "t", ";">>,
     <<"&", "#", "3", "9", ";">>, <<"&", "#", "x", "2", "7", ";">>}

\* No < > " ' in the text, and every & of it starts a character entity.
Escaped(text) ==
    \A i \in 1..Len(text) :
        /\ text[i] \notin {"<", ">", "\"", "'"}
        /\ text[i] = "&" =>
              \E e \in Entities :
                  /\ i + Len(e) - 1 <= Len(text)
                  /\ SubSeq(text, i, i + Len(e) - 1) = e

\* C6: whatever text the markup embeds (a unit, a feature id, a feature
\* name, a candidate, the tooltip of the other candidates) is escaped: none
\* of & < > " ' of the input stands unescaped in the output.
C6_EveryTextEscaped ==
    /\ \A i \in 1..Len(frame.out) :
           Escaped(frame.out[i].text) /\ Escaped(frame.out[i].title)
    /\ \A i \in 1..Len(feature_result.html) :
           /\ Escaped(feature_result.html[i].text)
           /\ Escaped(feature_result.html[i].title)

\* The weights of the rendered tokens, in the order of their spans: the
\* not-found features kept, then the units of the document.
TokenWeights ==
    [i \in 1..Len(frame.not_found_weights) |-> frame.not_found_weights[i][2]]
        \o frame.char_weights

\* |w| against the tolerance: -1, 0 or 1 as it is below, at or beyond it.
AgainstTolerance(w) == MCmp(MagOf(w), Atol)

\* The span shows only an opacity.
OpacityOnly(el) ==
    /\ Len(el.style) = 1 /\ el.style[1].prop = "opacity"
    /\ el.title = <<>>

\* The span shows a background colour of the weight's hue at min_lightness
\* 0.6, an opacity, and the weight to 3 decimal places as its tooltip.
Highlighted(el, w, r) ==
    /\ Len(el.style) = 2
    /\ el.style[1].prop = "background-color"
    /\ el.style[1].val[1] = "hsl"
    /\ el.style[1].val[2] = (IF IsPositive(w) THEN "120" ELSE "0")
    /\ el.style[1].val[4] = Lightness(w, r, HighlightMinLightness).value
    /\ el.style[2].prop = "opacity"
    /\ el.title = <<Format3f(w)>>

\* C7, as stated: a token with |w| < EPS gets the opacity alone; one with
\* |w| >= EPS, |w| = EPS included, gets background colour, opacity, tooltip.
C7_HighlightFromToleranceOn ==
    (Rendering /\ frame.status = "ok") =>
        /\ Len(SpansOf(frame.out)) = Len(TokenWeights)
        /\ \A i \in 1..Len(TokenWeights) :
               IF AgainstTolerance(TokenWeights[i]) < 0
               THEN OpacityOnly(SpansOf(frame.out)[i])
               ELSE Highlighted(SpansOf(frame.out)[i], TokenWeights[i],
                                frame.weight_range[1])

\* C7, amended: a token with |w| <= EPS gets the opacity alone; one with
\* |w| > EPS gets background colour, opacity and tooltip.
C7_HighlightBeyondTolerance ==
    (Rendering /\ frame.status = "ok") =>
        /\ Len(SpansOf(frame.out)) = Len(TokenWeights)
        /\ \A i \in 1..Len(TokenWeights) :
               IF AgainstTolerance(TokenWeights[i]) <= 0
               THEN OpacityOnly(SpansOf(frame.out)[i])
               ELSE Highlighted(SpansOf(frame.out)[i], TokenWeights[i],
                                frame.weight_range[1])

\* C7's case: a rendering with a token whose |w| is exactly EPS, one of
\* positive and one of negative weight beyond it.
C7_Witness ==
    /\ Rendering /\ frame.status = "ok"
    /\ \E i, j, k \in 1..Len(TokenWeights) :
          /\ AgainstTolerance(TokenWeights[i]) = 0
          /\ ~TokenWeights[j].neg /\ AgainstTolerance(TokenWeights[j]) > 0
          /\ TokenWeights[k].neg /\ AgainstTolerance(TokenWeights[k]) > 0

Formatting == op = "format_feature"

\* A candidate-list feature: a list of items that each have a name and a
\* sign.
CandidateList(feature) ==
    feature.is_list /\ HasNameAndSign(feature.candidates)

\* The ellipsis elements of markup.
Ellipses(html) == {i \in 1..Len(html) : html[i].text = <<"&hellip;">>}

\* The candidates from the i-th on, each sign-formatted and escaped, a
\* newline between two.
RECURSIVE TooltipFrom(_, _)
TooltipFrom(cs, i) ==
    IF i > Len(cs) THEN <<>>
    ELSE (IF cs[i].sign > 0 THEN <<>> ELSE <<"(", "-", ")">>)
            \o html_escape(cs[i].name)
            \o (IF i < Len(cs) THEN <<"\n">> ELSE <<>>)
            \o TooltipFrom(cs, i + 1)

\* C8: a list of one candidate is formatted with no ellipsis element; a
\* list of k > 1 candidates as the first candidate formatted, then exactly
\* one ellipsis element whose tooltip lists the other k-1 candidates in
\* their order, sign-formatted, escaped and joined by newlines, without the
\* first.
C8_EllipsisListsTheRest ==
    (Formatting /\ CandidateList(feature_arg)) =>
        LET cs == feature_arg.candidates
            k == Len(cs)
            html == feature_result.html
        IN  /\ k = 1 => Ellipses(html) = {}
            /\ k > 1 =>
                  /\ Ellipses(html) = {Len(html)}
                  /\ html[Len(html)].title = TooltipFrom(cs, 2)
                  /\ html[Len(html) - 1] = TextEl(<<" ">>)
                  /\ SubSeq(html, 1, Len(html) - 2)
                        = _format_feature([is_list |-> TRUE, name |-> <<>>,
                                           candidates |-> <<cs[1]>>],
                                          PyFloat(weight_arg)).html

\* C8's case: three candidates have been formatted, the first unlike the
\* others, one of the others negative and one with a character to escape.
C8_Witness ==
    /\ Formatting /\ CandidateList(feature_arg)
    /\ feature_result.status = "ok"
    /\ Len(feature_arg.candidates) = 3
    /\ feature_arg.candidates[1].name = <<"a">>
    /\ feature_arg.candidates[2] = [name |-> <<"<">>, sign |-> -1]
    /\ feature_arg.candidates[3] = [name |-> <<"'", " ">>, sign |-> 1]
    /\ Len(feature_result.html) >= 3

\* The explanation as the call passes it on: what the caller gave, without
\* the fields (the members of fields.ALL) that `show` leaves out.
Shown(d) ==
    /\ DOMAIN d = (DOMAIN explanation_arg) \ (FieldsALL \ show_arg)
    /\ \A k \in DOMAIN d : d[k] = explanation_arg[k]

\* C9: after any call of format_as_html, one that raises included, the
\* caller's explanation is as it was: every field it had, with the same
\* value.  The fields that `show` leaves out are dropped from the call's own
\* copy before rendering, and a call that returns has rendered that copy.
C9_CallerExplanationKept ==
    (op = "format_as_html") =>
        /\ heap[CallerRef] = explanation_arg
        /\ DOMAIN heap # {CallerRef}
        /\ \A r \in (DOMAIN heap) \ {CallerRef} : Shown(heap[r])
        /\ context.status \in {"ok", "TypeError"}
        /\ context.status = "ok" =>
              /\ Shown(context.explanation)
              /\ (DOMAIN context.keywords) \cap (DOMAIN context.explanation)
                    = {}

\* C9's case: a call whose `show` leaves out a field the explanation has
\* and keeps another, and whose explanation has a key that is a keyword of
\* template.render: the call has dropped the field from its copy and has
\* raised.
C9_Witness ==
    /\ op = "format_as_html"
    /\ \E k \in DOMAIN explanation_arg : k \in FieldsALL \ show_arg
    /\ \E k \in DOMAIN explanation_arg : k \in show_arg
    /\ "include_styles" \in DOMAIN explanation_arg
    /\ context.status = "TypeError"
    /\ \E r \in (DOMAIN heap) \ {CallerRef} :
          DOMAIN heap[r] # DOMAIN explanation_arg

\* C10: on well-formed input (any document length, the empty document
\* included, any not-found mapping) render_weighted_spans returns a string
\* and does not raise.
C10_TotalOnWellFormedInput ==
    (Rendering /\ InputWellFormed) => frame.status = "ok"

====
